---- MODULE Spec2Model ----
(***************************************************************************)
(* LZSS codec (Okumura's LZSS.C, Rust port): struct Lzss with its ring     *)
(* buffer and binary search trees, encode() and decode() as step machines *)
(* over the code's loops, and compress()/decompress() as whole calls.      *)
(*                                                                         *)
(* Rust arrays are 0-based.  The model keeps each array as a sequence and  *)
(* reads element k with At(a, k), writes it with Put(a, k, v).             *)
(***************************************************************************)
EXTENDS Integers, Sequences, FiniteSets, TLC

\* ------------------------------------------------------------ constants
N == 2048
F == 24
THRESHOLD == 1
NIL == N

\* ------------------------------------------------------- model bounds
\* Short inputs: every byte sequence over Alphabet up to this length.
MaxLen == 3
\* Ramp inputs (distinct bytes, so all literals): the longest one.
MaxRamp == 26
\* Mixed two-letter inputs of up to this length (reading loop, tree shapes).
MidLen == 70
\* Long inputs: a mixed head, a constant fill and a tail repeating the head at
\* distance HeadLen + FillLen, which lies in (N - F, N].
HeadLen == 40
FillLen == 1985
TailLen == 50
\* Decoder inputs: up to this many trailing bytes removed from compress(x).
MaxTrunc == 4
\* Number of compress/decompress calls made in one behaviour.
MaxCalls == 2

VARIABLES self, enc, dec, calls

vars == <<self, enc, dec, calls>>

\* ---------------------------------------------------- integer helpers
RECURSIVE BitAnd(_, _)
BitAnd(a, b) ==
    IF a = 0 \/ b = 0 THEN 0
    ELSE (a % 2) * (b % 2) + 2 * BitAnd(a \div 2, b \div 2)

RECURSIVE BitOr(_, _)
BitOr(a, b) ==
    IF a = 0 THEN b
    ELSE IF b = 0 THEN a
    ELSE (IF a % 2 = 1 \/ b % 2 = 1 THEN 1 ELSE 0) + 2 * BitOr(a \div 2, b \div 2)

AsU8(v) == v % 256

Min(a, b) == IF a < b THEN a ELSE b

\* --------------------------------------------------------------- arrays
\* The array (or byte vector) whose element k is f[k + 1], f a function on 1..n.
Array(f) == <<>> \o f

At(a, k) == a[k + 1]

Put(a, k, v) == [a EXCEPT ![k + 1] = v]

\* ------------------------------------------------------------ Lzss::new
new ==
    [ text_buf       |-> Array([k \in 1..(N + F - 1) |-> 0]),
      match_position |-> 0,
      match_length   |-> 0,
      lson           |-> Array([k \in 1..(N + 1) |-> 0]),
      rson           |-> Array([k \in 1..(N + 257) |-> 0]),
      dad            |-> Array([k \in 1..(N + 1) |-> 0]) ]

\* ------------------------------------------------------ Lzss::init_tree
\* Variant: the loop over dad is missing, only the root slots are reset.
init_tree_roots_only(lz) ==
    [lz EXCEPT
        !.rson = Array([k \in 1..(N + 257) |->
                           IF k - 1 >= N + 1 THEN NIL ELSE lz.rson[k]])]

init_tree(lz) ==
    [lz EXCEPT
        !.rson = Array([k \in 1..(N + 257) |->
                           IF k - 1 >= N + 1 THEN NIL ELSE lz.rson[k]]),
        !.dad  = Array([k \in 1..(N + 1) |->
                           IF k - 1 < N THEN NIL ELSE lz.dad[k]])]

\* ---------------------------------------------------- Lzss::insert_node
\* Variant: the byte that differs is counted as matched.
RECURSIVE MatchScanOver(_, _, _, _)
MatchScanOver(tb, key, p, i) ==
    IF i < F /\ At(tb, key + i) - At(tb, p + i) = 0
    THEN MatchScanOver(tb, key, p, i + 1)
    ELSE Min(i + 1, F)

\* Variant: the comparison loop runs to F - 1 instead of F.
RECURSIVE MatchScanCapped(_, _, _, _)
MatchScanCapped(tb, key, p, i) ==
    IF i < F - 1 /\ At(tb, key + i) - At(tb, p + i) = 0
    THEN MatchScanCapped(tb, key, p, i + 1)
    ELSE i

\* The inner comparison loop: the first i >= the given one at which the strings
\* at key and p differ, or F when they agree up to F - 1.
RECURSIVE MatchScan(_, _, _, _)
MatchScan(tb, key, p, i) ==
    IF i < F /\ At(tb, key + i) - At(tb, p + i) = 0
    THEN MatchScan(tb, key, p, i + 1)
    ELSE i

RECURSIVE InsertLoop(_, _, _, _)

\* Variant: no break on a full match, the search goes on below p.
ReplaceNodeNoBreak(lz, r, p) == InsertLoop(lz, r, p, 0)

\* The tail of insert_node, after the loop's break on a full match:
\* r takes p's place in the tree and p is removed.
ReplaceNode(lz, r, p) ==
    LET d1 == Put(lz.dad, r, At(lz.dad, p))
        l1 == Put(lz.lson, r, At(lz.lson, p))
        r1 == Put(lz.rson, r, At(lz.rson, p))
        d2 == Put(d1, At(l1, p), r)
        d3 == Put(d2, At(r1, p), r)
        viaR == At(r1, At(d3, p)) = p
        r2 == IF viaR THEN Put(r1, At(d3, p), r) ELSE r1
        l2 == IF viaR THEN l1 ELSE Put(l1, At(d3, p), r)
        d4 == Put(d3, p, NIL)
    IN  [lz EXCEPT !.dad = d4, !.lson = l2, !.rson = r2]

\* One pass of insert_node's loop from node p with the last comparison cmp.
InsertLoop(lz, r, p, cmp) ==
    IF cmp >= 0 /\ At(lz.rson, p) = NIL
    THEN [lz EXCEPT !.rson = Put(lz.rson, p, r), !.dad = Put(lz.dad, r, p)]
    ELSE IF cmp < 0 /\ At(lz.lson, p) = NIL
    THEN [lz EXCEPT !.lson = Put(lz.lson, p, r), !.dad = Put(lz.dad, r, p)]
    ELSE
        LET q   == IF cmp >= 0 THEN At(lz.rson, p) ELSE At(lz.lson, p)
            i   == MatchScan(lz.text_buf, r, q, 1)
            c   == IF i < F THEN At(lz.text_buf, r + i) - At(lz.text_buf, q + i) ELSE 0
            lz1 == IF i > lz.match_length
                   THEN [lz EXCEPT !.match_position = q, !.match_length = i]
                   ELSE lz
        IN  IF i > lz.match_length /\ i >= F
            THEN ReplaceNode(lz1, r, q)
            ELSE InsertLoop(lz1, r, q, c)

insert_node(lz, r) ==
    InsertLoop([lz EXCEPT !.rson = Put(lz.rson, r, NIL),
                          !.lson = Put(lz.lson, r, NIL),
                          !.match_length = 0],
               r, N + 1 + At(lz.text_buf, r), 1)

\* ---------------------------------------------------- Lzss::delete_node
RECURSIVE Rightmost(_, _)
Rightmost(rs, q) == IF At(rs, q) # NIL THEN Rightmost(rs, At(rs, q)) ELSE q

\* The both-children branch: q ends as the rightmost node of p's left subtree.
SpliceNode(lz, p) ==
    LET q0 == At(lz.lson, p)
    IN  IF At(lz.rson, q0) # NIL
        THEN LET q  == Rightmost(lz.rson, q0)
                 r1 == Put(lz.rson, At(lz.dad, q), At(lz.lson, q))
                 d1 == Put(lz.dad, At(lz.lson, q), At(lz.dad, q))
                 l1 == Put(lz.lson, q, At(lz.lson, p))
                 d2 == Put(d1, At(l1, p), q)
                 r2 == Put(r1, q, At(r1, p))
                 d3 == Put(d2, At(r2, p), q)
             IN  [lz |-> [lz EXCEPT !.dad = d3, !.lson = l1, !.rson = r2], q |-> q]
        ELSE LET r2 == Put(lz.rson, q0, At(lz.rson, p))
                 d3 == Put(lz.dad, At(r2, p), q0)
             IN  [lz |-> [lz EXCEPT !.dad = d3, !.rson = r2], q |-> q0]

delete_node(lz, p) ==
    IF At(lz.dad, p) = NIL THEN lz
    ELSE
        LET c  == IF At(lz.rson, p) = NIL THEN [lz |-> lz, q |-> At(lz.lson, p)]
                  ELSE IF At(lz.lson, p) = NIL THEN [lz |-> lz, q |-> At(lz.rson, p)]
                  ELSE SpliceNode(lz, p)
            q  == c.q
            d1 == Put(c.lz.dad, q, At(c.lz.dad, p))
            viaR == At(c.lz.rson, At(d1, p)) = p
            r1 == IF viaR THEN Put(c.lz.rson, At(d1, p), q) ELSE c.lz.rson
            l1 == IF viaR THEN c.lz.lson ELSE Put(c.lz.lson, At(d1, p), q)
            d2 == Put(d1, p, NIL)
        IN  [c.lz EXCEPT !.dad = d2, !.lson = l1, !.rson = r1]

\* ------------------------------------------------------ byte streams
\* Variant: the end of the input is tested one byte late.
ReadPastEnd(input, pos) ==
    IF pos <= Len(input)
    THEN [n |-> 1, byte |-> IF pos < Len(input) THEN input[pos + 1] ELSE 0,
          pos |-> pos + 1]
    ELSE [n |-> 0, byte |-> 0, pos |-> pos]

\* std::io::Cursor::read into a 1-byte buffer: n = 0 at the end of the input.
Read(input, pos) ==
    IF pos < Len(input)
    THEN [n |-> 1, byte |-> input[pos + 1], pos |-> pos + 1]
    ELSE [n |-> 0, byte |-> 0, pos |-> pos]

\* output.write_all(&[code_buf[i]]) for i in 0..code_buf_ptr
WriteCode(output, code_buf, code_buf_ptr) ==
    output \o SubSeq(code_buf, 1, code_buf_ptr)

\* --------------------------------------------------------- Lzss::encode
\* The locals of encode() on entry, with the input stream and the output.
EncodeEntry(buffer) ==
    [ pc |-> "encode", input |-> buffer, pos |-> 0, output |-> <<>>,
      code_buf |-> Array([k \in 1..17 |-> 0]), code_buf_ptr |-> 1, mask |-> 1,
      s |-> 0, r |-> N - F, len |-> 0, buffer |-> 0,
      i |-> 0, last_match_length |-> 0 ]

\* init_tree, the buffer clear and the priming read of up to F bytes.
encode_begin(lz, e) ==
    LET r   == N - F
        len == Min(F, Len(e.input))
        lz1 == init_tree(lz)
        tb  == Array([k \in 1..(N + F - 1) |->
                   IF k - 1 < r THEN 0
                   ELSE IF k - 1 < r + len THEN e.input[k - r]
                   ELSE lz1.text_buf[k]])
    IN  [ self |-> [lz1 EXCEPT !.text_buf = tb],
          enc  |-> [e EXCEPT !.code_buf = Put(e.code_buf, 0, 0),
                             !.code_buf_ptr = 1, !.mask = 1, !.s = 0, !.r = r,
                             !.len = len, !.pos = len,
                             !.buffer = IF len > 0 THEN e.input[len] ELSE 0,
                             !.i = 1,
                             !.pc = IF len = 0 THEN "return" ELSE "prime"] ]

\* for i in 1..=F { insert_node(r.wrapping_sub(i)) }: one pass (r = N - F >= F).
prime_insert(lz, e) ==
    [ self |-> insert_node(lz, e.r - e.i),
      enc  |-> [e EXCEPT !.i = e.i + 1,
                         !.pc = IF e.i + 1 <= F THEN "prime" ELSE "first"] ]

\* insert_node(r) of the string just read.
first_insert(lz, e) ==
    [ self |-> insert_node(lz, e.r), enc |-> [e EXCEPT !.pc = "unit"] ]

\* Variant: the length field holds match_length - THRESHOLD.
PackPairOffByOne(match_position, match_length) ==
    << AsU8(match_position),
       AsU8(BitOr(BitAnd(match_position \div 8, 224), match_length - THRESHOLD)) >>

\* The two bytes of a position-and-length pair.
PackPair(match_position, match_length) ==
    << AsU8(match_position),
       AsU8(BitOr(BitAnd(match_position \div 8, 224),
                  match_length - (THRESHOLD + 1))) >>

\* The head of the main loop: clamp, send one unit, flush a full block.
emit_unit(lz, e) ==
    LET ml0  == IF lz.match_length > e.len THEN e.len ELSE lz.match_length
        lit  == ml0 <= THRESHOLD
        ml   == IF lit THEN 1 ELSE ml0
        pair == PackPair(lz.match_position, ml0)
        cb   == IF lit
                THEN Put(Put(e.code_buf, 0, BitOr(At(e.code_buf, 0), e.mask)),
                         e.code_buf_ptr, At(lz.text_buf, e.r))
                ELSE Put(Put(e.code_buf, e.code_buf_ptr, pair[1]),
                         e.code_buf_ptr + 1, pair[2])
        ptr  == IF lit THEN e.code_buf_ptr + 1 ELSE e.code_buf_ptr + 2
        mask == (e.mask * 2) % 256
        full == mask = 0
    IN  [ self |-> [lz EXCEPT !.match_length = ml],
          enc  |-> [e EXCEPT
                      !.output = IF full THEN WriteCode(e.output, cb, ptr) ELSE e.output,
                      !.code_buf = IF full THEN Put(cb, 0, 0) ELSE cb,
                      !.code_buf_ptr = IF full THEN 1 ELSE ptr,
                      !.mask = IF full THEN 1 ELSE mask,
                      !.last_match_length = ml, !.i = 0, !.pc = "advance"] ]

\* Reading loop, a byte was read: delete_node(s).
read_delete(lz, e) ==
    LET rd == Read(e.input, e.pos)
    IN  [ self |-> delete_node(lz, e.s),
          enc  |-> [e EXCEPT !.buffer = rd.byte, !.pos = rd.pos, !.pc = "store"] ]

\* Variant: the store without the mirror write past N.
read_store_no_mirror(lz, e) ==
    [ self |-> [lz EXCEPT !.text_buf = Put(lz.text_buf, e.s, e.buffer)],
      enc  |-> [e EXCEPT !.s = BitAnd(e.s + 1, N - 1),
                         !.r = BitAnd(e.r + 1, N - 1), !.pc = "insert"] ]

\* text_buf[s] = byte, its mirror past N, and the advance of s and r.
read_store(lz, e) ==
    LET t1 == Put(lz.text_buf, e.s, e.buffer)
        t2 == IF e.s < F - 1 THEN Put(t1, e.s + N, e.buffer) ELSE t1
    IN  [ self |-> [lz EXCEPT !.text_buf = t2],
          enc  |-> [e EXCEPT !.s = BitAnd(e.s + 1, N - 1),
                             !.r = BitAnd(e.r + 1, N - 1), !.pc = "insert"] ]

\* insert_node(r) closing one pass of the reading loop.
read_insert(lz, e) ==
    [ self |-> insert_node(lz, e.r),
      enc  |-> [e EXCEPT !.i = e.i + 1, !.pc = "advance"] ]

\* After the end of text: delete_node(s), advance, len -= 1.
eof_delete(lz, e) ==
    [ self |-> delete_node(lz, e.s),
      enc  |-> [e EXCEPT !.s = BitAnd(e.s + 1, N - 1),
                         !.r = BitAnd(e.r + 1, N - 1),
                         !.len = e.len - 1,
                         !.i = IF e.len - 1 # 0 THEN e.i ELSE e.i + 1,
                         !.pc = IF e.len - 1 # 0 THEN "eofinsert" ELSE "advance"] ]

\* After the end of text: insert_node(r) while len != 0.
eof_insert(lz, e) ==
    [ self |-> insert_node(lz, e.r),
      enc  |-> [e EXCEPT !.i = e.i + 1, !.pc = "advance"] ]

\* Both inner loops are over: leave the main loop when len == 0.
loop_test(lz, e) ==
    [ self |-> lz,
      enc  |-> [e EXCEPT !.pc = IF e.len = 0 THEN "flush" ELSE "unit"] ]

\* Variant: the block is written even when it holds no unit.
final_flush_always(lz, e) ==
    [ self |-> lz,
      enc  |-> [e EXCEPT !.output = WriteCode(e.output, e.code_buf, e.code_buf_ptr),
                         !.pc = "return"] ]

\* Send remaining code.
final_flush(lz, e) ==
    [ self |-> lz,
      enc  |-> [e EXCEPT
                  !.output = IF e.code_buf_ptr > 1
                             THEN WriteCode(e.output, e.code_buf, e.code_buf_ptr)
                             ELSE e.output,
                  !.pc = "return"] ]

\* Which inner-loop step is next at the top of the two while loops.
AdvanceKind(e) ==
    IF e.i >= e.last_match_length THEN "test"
    ELSE IF Read(e.input, e.pos).n # 0 THEN "read"
    ELSE "eof"

\* One step of encode() from any position.
encode_step(lz, e) ==
    CASE e.pc = "encode"    -> encode_begin(lz, e)
      [] e.pc = "prime"     -> prime_insert(lz, e)
      [] e.pc = "first"     -> first_insert(lz, e)
      [] e.pc = "unit"      -> emit_unit(lz, e)
      [] e.pc = "advance" /\ AdvanceKind(e) = "read" -> read_delete(lz, e)
      [] e.pc = "advance" /\ AdvanceKind(e) = "eof"  -> eof_delete(lz, e)
      [] e.pc = "advance" /\ AdvanceKind(e) = "test" -> loop_test(lz, e)
      [] e.pc = "store"     -> read_store(lz, e)
      [] e.pc = "insert"    -> read_insert(lz, e)
      [] e.pc = "eofinsert" -> eof_insert(lz, e)
      [] e.pc = "flush"     -> final_flush(lz, e)

RECURSIVE encode(_, _)
encode(lz, e) ==
    IF e.pc = "return" THEN [self |-> lz, enc |-> e]
    ELSE LET n == encode_step(lz, e) IN encode(n.self, n.enc)

\* Lzss::compress: the instance after the call and the frame holding the output.
compress(lz, buffer) == encode(lz, EncodeEntry(buffer))

\* --------------------------------------------------------- Lzss::decode
\* The locals of decode() on entry, with the input stream and the output.
DecodeEntry(buffer) ==
    [ pc |-> "decode", input |-> buffer, pos |-> 0, output |-> <<>>,
      r |-> 0, flags |-> 0 ]

\* No call of that kind is running or has run.
Idle == [ pc |-> "idle" ]

\* The clear of text_buf[0 .. N-F) and the initial r and flags.
decode_begin(lz, d) ==
    [ self |-> [lz EXCEPT !.text_buf =
                   Array([k \in 1..(N + F - 1) |->
                             IF k - 1 < N - F THEN 0 ELSE lz.text_buf[k]])],
      dec  |-> [d EXCEPT !.r = N - F, !.flags = 0, !.pc = "loop"] ]

\* for k in 0..=length: copy text_buf[(pos + k) & (N - 1)] to the output and to
\* text_buf[r].  c is [tb, out, r].
RECURSIVE CopyLoop(_, _, _, _)
CopyLoop(c, pos, k, length) ==
    IF k > length THEN c
    ELSE LET b == At(c.tb, BitAnd(pos + k, N - 1))
         IN  CopyLoop([tb  |-> Put(c.tb, c.r, b),
                       out |-> Append(c.out, b),
                       r   |-> BitAnd(c.r + 1, N - 1)],
                      pos, k + 1, length)

\* The position and the length field of a pair read as bytes i and j.
UnpackPos(i, j) == BitOr(i, BitAnd(j, 224) * 8)

\* Variant: the length field read without THRESHOLD.
UnpackLengthNoThreshold(j) == BitAnd(j, 31)

UnpackLength(j) == BitAnd(j, 31) + THRESHOLD

\* One pass of decode()'s loop.  kind tells what the pass did:
\* "literal", "copy", or "eof" (a read returned 0 and the loop was left).
decode_pass(lz, d) ==
    LET f1    == d.flags \div 2
        need  == BitAnd(f1, 256) = 0
        rf    == Read(d.input, d.pos)
        f2    == IF need THEN BitOr(rf.byte, 65280) ELSE f1
        p1    == IF need THEN rf.pos ELSE d.pos
        stop  == [ self |-> lz, kind |-> "eof", dec |-> [d EXCEPT !.pc = "return"] ]
    IN  IF need /\ rf.n = 0 THEN stop
        ELSE IF BitAnd(f2, 1) # 0
        THEN LET rb == Read(d.input, p1)
             IN  IF rb.n = 0 THEN stop
                 ELSE [ self |-> [lz EXCEPT !.text_buf = Put(lz.text_buf, d.r, rb.byte)],
                        kind |-> "literal",
                        dec  |-> [d EXCEPT !.flags = f2, !.pos = rb.pos,
                                           !.output = Append(d.output, rb.byte),
                                           !.r = BitAnd(d.r + 1, N - 1)] ]
        ELSE LET ri == Read(d.input, p1)
                 rj == Read(d.input, ri.pos)
             IN  IF ri.n = 0 \/ rj.n = 0 THEN stop
                 ELSE LET c == CopyLoop([tb |-> lz.text_buf, out |-> d.output, r |-> d.r],
                                        UnpackPos(ri.byte, rj.byte), 0,
                                        UnpackLength(rj.byte))
                      IN  [ self |-> [lz EXCEPT !.text_buf = c.tb],
                            kind |-> "copy",
                            dec  |-> [d EXCEPT !.flags = f2, !.pos = rj.pos,
                                               !.output = c.out, !.r = c.r] ]

\* One step of decode() from any position.
decode_step(lz, d) ==
    IF d.pc = "decode" THEN decode_begin(lz, d)
    ELSE LET n == decode_pass(lz, d) IN [self |-> n.self, dec |-> n.dec]

RECURSIVE decode(_, _)
decode(lz, d) ==
    IF d.pc = "return" THEN [self |-> lz, dec |-> d]
    ELSE LET n == decode_step(lz, d) IN decode(n.self, n.dec)

\* Lzss::decompress: the instance after the call and the frame holding the output.
decompress(lz, buffer) == decode(lz, DecodeEntry(buffer))


\* ------------------------------------------------------------- inputs
Alphabet == {0, 200}

RECURSIVE SeqsUpTo(_)
SeqsUpTo(n) ==
    IF n = 0 THEN {<<>>}
    ELSE LET S == SeqsUpTo(n - 1)
         IN  S \cup {Append(w, b) : w \in {v \in S : Len(v) = n - 1}, b \in Alphabet}

ShortInputs == SeqsUpTo(MaxLen)

\* n distinct bytes, low and high: every unit is a literal.
Ramp(n) == Array([k \in 1..n |-> (k * 37) % 256])

\* 8 and 16 units fill whole blocks, 9 and 17 start a new one.
RampInputs == {Ramp(n) : n \in {8, 9, 16, 17, MaxRamp}}

\* A two-letter sequence of period 61 (quadratic residues), one per multiplier a.
Mix(a, k) == ((a * k * k) % 61) % 2

MixInputs == {Array([k \in 1..n |-> Mix(a, k)]) : a \in {1, 2}, n \in {F + 1, MidLen}}

Long(a) ==
    Array([k \in 1..(HeadLen + FillLen + TailLen) |->
              IF k <= HeadLen THEN Mix(a, k)
              ELSE IF k <= HeadLen + FillLen THEN 2
              ELSE Mix(a, k - (HeadLen + FillLen))])

LongInputs == {Long(1)}

Inputs == ShortInputs \cup RampInputs \cup MixInputs \cup LongInputs

\* The prefixes of z handed to decompress: at most MaxTrunc trailing bytes removed.
Cuts(z) == {Len(z) - j : j \in 0..Min(Len(z), MaxTrunc)}

\* ------------------------------------------------- compress, then decompress
\* compress(x) runs on a newly constructed Lzss, step by step; decompress of a
\* prefix of its result then runs on another newly constructed Lzss.
Init ==
    /\ self = new
    /\ enc \in {EncodeEntry(x) : x \in Inputs}
    /\ dec = Idle
    /\ calls = 0

EncAct(step) ==
    \E n \in {step} : self' = n.self /\ enc' = n.enc /\ UNCHANGED <<dec, calls>>

EncodeBegin ==
    /\ enc.pc = "encode" /\ calls < MaxCalls
    /\ \E n \in {encode_begin(self, enc)} :
          self' = n.self /\ enc' = n.enc /\ calls' = calls + 1 /\ UNCHANGED dec

PrimeInsert == enc.pc = "prime" /\ EncAct(prime_insert(self, enc))

FirstInsert == enc.pc = "first" /\ EncAct(first_insert(self, enc))

EmitUnit == enc.pc = "unit" /\ EncAct(emit_unit(self, enc))

ReadDelete ==
    /\ enc.pc = "advance" /\ AdvanceKind(enc) = "read"
    /\ EncAct(read_delete(self, enc))

ReadStore == enc.pc = "store" /\ EncAct(read_store(self, enc))

ReadInsert == enc.pc = "insert" /\ EncAct(read_insert(self, enc))

EofDelete ==
    /\ enc.pc = "advance" /\ AdvanceKind(enc) = "eof"
    /\ EncAct(eof_delete(self, enc))

EofInsert == enc.pc = "eofinsert" /\ EncAct(eof_insert(self, enc))

LoopTest ==
    /\ enc.pc = "advance" /\ AdvanceKind(enc) = "test"
    /\ EncAct(loop_test(self, enc))

FinalFlush == enc.pc = "flush" /\ EncAct(final_flush(self, enc))

DecodeBegin ==
    /\ enc.pc = "return" /\ dec.pc = "idle" /\ calls < MaxCalls
    /\ \E k \in Cuts(enc.output) :
          \E n \in {decode_begin(new, DecodeEntry(SubSeq(enc.output, 1, k)))} :
              self' = n.self /\ dec' = n.dec
    /\ calls' = calls + 1
    /\ UNCHANGED enc

DecAct(kind) ==
    \E n \in {decode_pass(self, dec)} :
        n.kind = kind /\ self' = n.self /\ dec' = n.dec /\ UNCHANGED <<enc, calls>>

DecodeLiteral == dec.pc = "loop" /\ DecAct("literal")

DecodeCopy == dec.pc = "loop" /\ DecAct("copy")

DecodeEof == dec.pc = "loop" /\ DecAct("eof")

Next ==
    \/ EncodeBegin \/ PrimeInsert \/ FirstInsert \/ EmitUnit
    \/ ReadDelete \/ ReadStore \/ ReadInsert
    \/ EofDelete \/ EofInsert \/ LoopTest \/ FinalFlush
    \/ DecodeBegin \/ DecodeLiteral \/ DecodeCopy \/ DecodeEof

Spec == Init /\ [][Next]_vars

\* ------------------------------------------- calls on one reused instance
\* One Lzss serves MaxCalls calls of compress / decompress, each a whole call.
ReuseInputs == ShortInputs

\* The streams handed to decompress: what compress returns for the short inputs.
ReuseStreams == {compress(new, x).enc.output : x \in ShortInputs}

InitReuse ==
    /\ self = new
    /\ enc = Idle
    /\ dec = Idle
    /\ calls = 0

CompressCall ==
    /\ calls < MaxCalls
    /\ \E b \in ReuseInputs : \E n \in {compress(self, b)} :
          self' = n.self /\ enc' = n.enc /\ dec' = Idle
    /\ calls' = calls + 1

DecompressCall ==
    /\ calls < MaxCalls
    /\ \E b \in ReuseStreams : \E n \in {decompress(self, b)} :
          self' = n.self /\ dec' = n.dec /\ enc' = Idle
    /\ calls' = calls + 1

NextReuse == CompressCall \/ DecompressCall

SpecReuse == InitReuse /\ [][NextReuse]_vars

\* ------------------------------------------------------ C1: round trip
\* C1: when decompress, run on a new Lzss over the whole of compress(x), has
\* returned, its output is x, byte for byte (x empty included).
RoundTrip ==
    (dec.pc = "return" /\ dec.input = enc.output) => dec.output = enc.input

\* A stream with back-references, shorter than its plaintext of more than N
\* bytes, has been decoded to the end.
RoundTripWitness ==
    /\ dec.pc = "return" /\ dec.input = enc.output
    /\ Len(enc.input) > N
    /\ Len(enc.output) < Len(enc.input)
    /\ Len(dec.output) = Len(enc.input)

\* ------------------------------------------------ C2: truncated streams
IsPrefix(a, b) == Len(a) <= Len(b) /\ SubSeq(b, 1, Len(a)) = a

\* C2: decompress of any prefix y of compress(x) meets no error (every pass
\* of the loop is a literal, a copy or the break on a read of 0 bytes, and
\* every array index it uses is in range), and what it has written, at every
\* pass and on return, is a prefix of x.
TruncationPrefix ==
    dec.pc \in {"loop", "return"} =>
        /\ IsPrefix(dec.input, enc.output)
        /\ IsPrefix(dec.output, enc.input)

\* decode returned on a stream cut between the two bytes of a back-reference:
\* the flags held a 0 bit for the unit and only its first byte could be read.
TruncationWitness ==
    /\ dec.pc = "return"
    /\ Len(dec.input) < Len(enc.output)
    /\ BitAnd(dec.flags \div 2, 256) # 0
    /\ BitAnd(dec.flags \div 2, 1) = 0
    /\ dec.pos + 1 = Len(dec.input)
    /\ Len(dec.output) > 0
    /\ Len(dec.output) < Len(enc.input)

\* --------------------------------------------- C3: independent calls
\* C3: a call of compress (decompress) on an instance that has served earlier
\* calls returns the bytes the same call returns on a new instance.
CallsIndependent ==
    /\ enc.pc = "return" => enc.output = compress(new, enc.input).enc.output
    /\ dec.pc = "return" => dec.output = decompress(new, dec.input).dec.output

\* ------------------------------------------------ C4: expansion bound
\* C4: compress(x) is at most Len(x) + ceil(Len(x) / 8) bytes long (c = 0),
\* nothing at all for the empty input.
ExpansionBound ==
    (dec.pc = "idle" /\ enc.pc = "return") =>
        Len(enc.output) <= Len(enc.input) + (Len(enc.input) + 7) \div 8

\* The bound is met with equality by an input of more than two blocks of literals.
ExpansionWitness ==
    /\ dec.pc = "idle" /\ enc.pc = "return"
    /\ Len(enc.input) > 16
    /\ Len(enc.output) = Len(enc.input) + (Len(enc.input) + 7) \div 8

\* --------------------------------------- C5: back-reference fields
\* encode has just sent a unit (the head of the main loop ran, i = 0).
UnitSent == dec.pc = "idle" /\ enc.pc = "advance" /\ enc.i = 0

\* The last two bytes encode put into the block (written out if it was full).
LastTwo ==
    IF enc.code_buf_ptr = 1
    THEN <<enc.output[Len(enc.output) - 1], enc.output[Len(enc.output)]>>
    ELSE <<At(enc.code_buf, enc.code_buf_ptr - 2), At(enc.code_buf, enc.code_buf_ptr - 1)>>

\* C5: for every back-reference unit encode sends, match_position is in [0, N),
\* the clamped match_length is in [THRESHOLD + 1, F], both bytes are bytes,
\* and the decoder's pos = i | ((j & 0xE0) << 3) and copy count
\* (j & 0x1F) + THRESHOLD + 1 computed from the two bytes sent are that
\* match_position and that match_length.
FieldAgreement ==
    (UnitSent /\ self.match_length > THRESHOLD) =>
        /\ self.match_position \in 0..(N - 1)
        /\ self.match_length \in (THRESHOLD + 1)..F
        /\ self.match_length - (THRESHOLD + 1) \in 0..31
        /\ LastTwo[1] \in 0..255 /\ LastTwo[2] \in 0..255
        /\ UnpackPos(LastTwo[1], LastTwo[2]) = self.match_position
        /\ UnpackLength(LastTwo[2]) + 1 = self.match_length

\* A back-reference of more than two bytes to a position with bits above bit 7.
FieldAgreementWitness ==
    /\ UnitSent
    /\ self.match_length > THRESHOLD + 1
    /\ self.match_position >= 256
    /\ self.match_position % 256 # 0

\* ------------------------------------------------ reading the trees
\* The nodes in a tree: dad[i] != NIL.
Live(lz) == {i \in 0..(N - 1) : At(lz.dad, i) # NIL}

\* The trees that hold a node: c with rson[N + 1 + c] != NIL.
Roots(lz) == {c \in 0..255 : At(lz.rson, N + 1 + c) # NIL}

\* The root slot reached from node i along dad links, NIL when the walk
\* leaves the tree or does not end within `fuel` links.
RECURSIVE RootOf(_, _, _)
RootOf(lz, i, fuel) ==
    IF At(lz.dad, i) > N THEN At(lz.dad, i)
    ELSE IF At(lz.dad, i) = NIL \/ fuel = 0 THEN NIL
    ELSE RootOf(lz, At(lz.dad, i), fuel - 1)

\* In-order walk of the subtree hanging from slot `parent` at n, down lson and
\* rson.  acc.seq collects the nodes.  The walk fails (acc.ok = FALSE) at a
\* node whose dad is not the slot it hangs from, at a slot value that is no
\* node, below depth `limit` or past `limit` nodes (a cycle).  In a walk that
\* succeeds the dad links of every node listed lead back, parent by parent,
\* to the root slot the walk started from.
RECURSIVE Walk(_, _, _, _, _, _)
Walk(lz, n, parent, depth, limit, acc) ==
    IF n = NIL \/ ~acc.ok THEN acc
    ELSE IF n > N \/ depth > limit \/ At(lz.dad, n) # parent
    THEN [acc EXCEPT !.ok = FALSE]
    ELSE LET a1 == Walk(lz, At(lz.lson, n), n, depth + 1, limit, acc)
         IN  IF ~a1.ok \/ Len(a1.seq) >= limit THEN [a1 EXCEPT !.ok = FALSE]
             ELSE Walk(lz, At(lz.rson, n), n, depth + 1, limit,
                       [a1 EXCEPT !.seq = Append(a1.seq, n)])

InOrder(lz, c, limit) ==
    Walk(lz, At(lz.rson, N + 1 + c), N + 1 + c, 1, limit, [seq |-> <<>>, ok |-> TRUE])

\* The in-order walk of every tree that holds a node.
Trees(lz, limit) == [c \in Roots(lz) |-> InOrder(lz, c, limit)]

SeqSet(q) == {q[k] : k \in 1..Len(q)}

\* The phase in which the trees are defined: encode() past init_tree.
Encoding == dec.pc = "idle" /\ enc.pc # "encode"

\* ------------------------------------------------ C6: tree structure
\* C6: in every state of encode after init_tree (so after every insert_node and
\* delete_node of the priming, the reading loop and the end-of-text loop), each
\* node i with dad[i] != NIL is held by exactly one child slot of dad[i] (rson of
\* a root slot, else exactly one of lson / rson) and is listed by the walk of
\* tree text_buf[i] from its root slot N + 1 + text_buf[i], a walk along which
\* every dad link points back one step towards that root slot (so the dad links
\* of i reach it without a cycle); each walk lists a node once, and no node is
\* listed by two trees.
TreeStructure ==
    Encoding =>
        \A live \in {Live(self)} : \A T \in {Trees(self, Cardinality(live))} :
        \A S \in {[c \in DOMAIN T |-> SeqSet(T[c].seq)]} :
            /\ \A c \in DOMAIN T :
                  /\ T[c].ok
                  /\ Cardinality(S[c]) = Len(T[c].seq)
                  /\ \A c2 \in DOMAIN T : c2 # c => S[c] \cap S[c2] = {}
            /\ \A i \in live :
                  \A d \in {At(self.dad, i)} :
                      /\ d > N => d = N + 1 + At(self.text_buf, i) /\ At(self.rson, d) = i
                      /\ d < N => (At(self.lson, d) = i) # (At(self.rson, d) = i)
                      /\ At(self.text_buf, i) \in DOMAIN T
                      /\ i \in S[At(self.text_buf, i)]
                      /\ RootOf(self, i, N) = N + 1 + At(self.text_buf, i)

\* delete_node(s) has just run on a plaintext position while the trees hold
\* several nodes, one of them with two children.
TreeStructureWitness ==
    /\ Encoding /\ enc.pc = "store"
    /\ Cardinality(Live(self)) >= 3
    /\ At(self.dad, enc.s) = NIL
    /\ enc.s >= N - F
    /\ \E i \in Live(self) : At(self.lson, i) # NIL /\ At(self.rson, i) # NIL

\* --------------------------------------------------- C7: search order
\* TRUE when the F-byte string at a is below the one at b, bytes compared as
\* insert_node compares them (the difference of the two bytes as integers).
RECURSIVE StrLess(_, _, _, _)
StrLess(tb, a, b, k) ==
    IF k >= F THEN FALSE
    ELSE IF At(tb, a + k) - At(tb, b + k) # 0 THEN At(tb, a + k) - At(tb, b + k) < 0
    ELSE StrLess(tb, a, b, k + 1)

\* Every tree walks, every node of tree c starts with byte c, and the in-order
\* walk lists the F-byte strings in strictly increasing order, so no two nodes
\* of a tree hold one string.
TreeOrder ==
    Encoding =>
        \A T \in {Trees(self, N)} : \A c \in DOMAIN T :
            /\ T[c].ok
            /\ \A k \in 1..Len(T[c].seq) :
                  /\ At(self.text_buf, T[c].seq[k]) = c
                  /\ k > 1 => StrLess(self.text_buf, T[c].seq[k - 1], T[c].seq[k], 0)

\* When encode is about to store a byte (delete_node(s) has run), the store
\* and its mirror leave the F-byte string of every node in a tree as it is.
StringsKept ==
    (dec.pc = "idle" /\ enc.pc = "store") =>
        \A tb \in {read_store(self, enc).self.text_buf} :
            \A i \in Live(self) : \A j \in 0..(F - 1) :
                At(tb, i + j) = At(self.text_buf, i + j)

\* C7: in every state of encode (after every insert_node, delete_node and byte
\* store) each tree c lists, in order, nodes that start with byte c and whose
\* current F-byte strings increase strictly; and the byte store changes the
\* F-byte string of no node that is in a tree when it is made.
SearchOrder == TreeOrder /\ StringsKept

\* A byte that differs from the one it replaces has just been stored while a
\* tree holds a node with two children.
SearchOrderWitness ==
    /\ dec.pc = "idle" /\ enc.pc = "insert"
    /\ enc.buffer # 2
    /\ enc.pos > N
    /\ \E c \in Roots(self) : \E n \in {At(self.rson, N + 1 + c)} :
          At(self.lson, n) # NIL /\ At(self.rson, n) # NIL

\* ------------------------------------------------ C8: match correctness
\* The argument of the insert_node call the next step of encode makes.
InsertArg == IF enc.pc = "prime" THEN enc.r - enc.i ELSE enc.r

\* C8: when a step of encode calls insert_node(r) and it returns with
\* match_length = m > 0, then m <= F, match_position is in [0, N), is not r,
\* was a node of tree text_buf[r] before the call, and the strings at
\* match_position and at r agree on their first m bytes.
MatchCorrect ==
    [][ (dec.pc = "idle" /\ enc.pc \in {"prime", "first", "insert", "eofinsert"}
         /\ enc' # enc /\ self'.match_length > 0)
        => \A m \in {self'.match_length} : \A mp \in {self'.match_position} :
           \A r \in {InsertArg} :
              /\ m <= F
              /\ mp \in 0..(N - 1)
              /\ mp # r
              /\ At(self.dad, mp) # NIL
              /\ RootOf(self, mp, N) = N + 1 + At(self.text_buf, r)
              /\ \A k \in 0..(m - 1) :
                    At(self'.text_buf, mp + k) = At(self'.text_buf, r + k) ]_vars

\* insert_node(r) of the reading loop returned a match of 2..F-1 bytes.
MatchCorrectWitness ==
    /\ dec.pc = "idle" /\ enc.pc = "advance" /\ enc.i > 0
    /\ enc.pos > F
    /\ self.match_length > THRESHOLD /\ self.match_length < F

\* --------------------------------------------------- C9: longest match
\* Common prefix length of x from offsets t and u (0-based), counted up to cap.
RECURSIVE Lcp(_, _, _, _, _)
Lcp(x, t, u, k, cap) ==
    IF k < cap /\ x[t + k + 1] = x[u + k + 1] THEN Lcp(x, t, u, k + 1, cap) ELSE k

\* At the head of the main loop: the plaintext offset of the cursor r.
Cursor == enc.pos - enc.len

\* The match the next unit is built from is at least as long as the common
\* prefix (up to F and up to the end of the text) with every earlier position
\* at a distance of at most `window`.
LongestWithin(window) ==
    (dec.pc = "idle" /\ enc.pc = "unit") =>
        \A t \in {Cursor} : \A cap \in {Min(F, Len(enc.input) - t)} :
        \A ml \in {Min(self.match_length, enc.len)} :
            \/ ml >= cap
            \/ \A d \in 1..Min(t, window) : ml >= Lcp(enc.input, t, t - d, 0, cap)

\* C9 as amended: at every main-loop step the clamped match length is at
\* least min(F, rem, lcp(x[t..], x[t-d..])) for every distance d with
\* 1 <= d <= min(t, N - F); the node at distance N - F + 1 was deleted before
\* insert_node(r) ran.
LongestMatchInLiveWindow == LongestWithin(N - F)

\* C9 as stated: every distance 1 .. min(t, N).
LongestMatchInN == LongestWithin(N)

\* A match longer than THRESHOLD and shorter than the cap was reported while
\* N - F earlier positions exist.
LongestMatchWitness ==
    /\ dec.pc = "idle" /\ enc.pc = "unit"
    /\ Cursor >= N - F
    /\ Min(self.match_length, enc.len) < Min(F, Len(enc.input) - Cursor)
    /\ Min(self.match_length, enc.len) > THRESHOLD

\* ----------------------------------------------------- C10: ring mirror
\* C10: throughout encode on a new Lzss (after the priming fill and after
\* every byte stored), text_buf[p] = text_buf[p + N] for p in [0, F - 1), so a
\* read of text_buf[q + k] past the end of the ring, q < N, k < F, q + k >= N,
\* gives the byte of the circular window.
RingMirror ==
    (dec.pc = "idle" /\ enc.pc # "encode") =>
        /\ \A p \in 0..(F - 2) : At(self.text_buf, p) = At(self.text_buf, p + N)
        /\ \A q \in (N - F + 1)..(N - 1) : \A k \in (N - q)..(F - 1) :
              At(self.text_buf, q + k) = At(self.text_buf, (q + k) % N)

\* A nonzero byte has been stored below F - 1 and mirrored.
RingMirrorWitness ==
    /\ dec.pc = "idle" /\ enc.pc = "insert"
    /\ enc.s >= 1 /\ enc.s <= F - 1
    /\ At(self.text_buf, enc.s - 1) # 0

====
